---- MODULE Spec2Model ----
(***************************************************************************)
(* Model of the physics core of the gravity simulator (simulation.py) and  *)
(* of the way its caller (gui.py) threads the body list through it.        *)
(*                                                                         *)
(* Numbers.  Python floats are modelled as exact rationals <<n, d>> in     *)
(* lowest terms with d > 0.  merge_bodies, handle_collisions and           *)
(* trigger_supernova are exact on them.  accel leaves the rationals (the   *)
(* power -1.5); there the model computes in fixed point: separations to    *)
(* 1/4, inv_dist3 to 1/256, the accelerations to whole units.              *)
(* A radius is kept as its square (field radius2): merge_bodies computes   *)
(* sqrt(r1^2 + r2^2), so the square stays rational, and a comparison       *)
(* dist < r1 + r2 is decided exactly on the squares (Overlaps).            *)
(*                                                                         *)
(* Units.  The model measures lengths in 1/100 of the code's world unit    *)
(* and times in 1/1000 of its time unit, so that the GUI's radii (0.05)    *)
(* and time step (1e-3) are small integers; masses keep their unit.  A     *)
(* length literal of the code is written ToLen(x), a velocity ToVel(x);    *)
(* G = 9.8 is unchanged by this choice (100^3 / 1000^2 = 1).               *)
(*                                                                         *)
(* Objects.  A Body is a record; field ref is the identity of the Python   *)
(* object (list.remove and the `in` operator compare Body objects by       *)
(* identity, since Body defines no __eq__).                                *)
(***************************************************************************)
EXTENDS Integers, Sequences, FiniteSets, TLC

VARIABLES bodies, last, nextRef, steps, novas

vars == <<bodies, last, nextRef, steps, novas>>

(***************************************************************************)
(* Bounds of the model.                                                    *)
(***************************************************************************)
MaxBodies == 2
MaxSteps == 1
MaxNovas == 1
MaxCoord == 60
MaxDenom == 200
MaxPasses == 13

(***************************************************************************)
(* Rational arithmetic.                                                    *)
(***************************************************************************)
Abs(n) == IF n < 0 THEN -n ELSE n

RECURSIVE GCD(_, _)
GCD(a, b) == IF b = 0 THEN a ELSE GCD(b, a % b)

Norm(n, d) ==
    LET s == IF d < 0 THEN -1 ELSE 1
        g == GCD(Abs(n), Abs(d))
    IN  <<(s * n) \div g, (s * d) \div g>>

Q(n) == <<n, 1>>
Frac(n, d) == Norm(n, d)
Zero == Q(0)

RAdd(a, b) ==
    LET g == GCD(a[2], b[2])
    IN  Norm(a[1] * (b[2] \div g) + b[1] * (a[2] \div g), (a[2] \div g) * b[2])
RNeg(a) == <<-a[1], a[2]>>
RSub(a, b) == RAdd(a, RNeg(b))
RMul(a, b) ==
    LET g1 == GCD(Abs(a[1]), b[2])
        g2 == GCD(Abs(b[1]), a[2])
    IN  IF a[1] = 0 \/ b[1] = 0 THEN Zero
        ELSE <<(a[1] \div g1) * (b[1] \div g2), (a[2] \div g2) * (b[2] \div g1)>>
RInv(a) == IF a[1] < 0 THEN <<-a[2], -a[1]>> ELSE <<a[2], a[1]>>
RDiv(a, b) == RMul(a, RInv(b))
Floor(a) == a[1] \div a[2]

\* Products that do not fit a machine integer: naturals as digit sequences, base 2^15,
\* least significant digit first.
RECURSIVE ToBig(_)
ToBig(n) == IF n < 32768 THEN <<n>> ELSE <<n % 32768>> \o ToBig(n \div 32768)

RECURSIVE BigScale(_, _, _)
BigScale(xs, d, carry) ==
    IF xs = <<>> THEN (IF carry = 0 THEN <<>> ELSE ToBig(carry))
    ELSE LET v == Head(xs) * d + carry
         IN  <<v % 32768>> \o BigScale(Tail(xs), d, v \div 32768)

RECURSIVE BigAdd(_, _, _)
BigAdd(xs, ys, carry) ==
    IF xs = <<>> /\ ys = <<>> THEN (IF carry = 0 THEN <<>> ELSE <<carry>>)
    ELSE LET x == IF xs = <<>> THEN 0 ELSE Head(xs)
             y == IF ys = <<>> THEN 0 ELSE Head(ys)
             v == x + y + carry
         IN  <<v % 32768>> \o BigAdd(IF xs = <<>> THEN xs ELSE Tail(xs),
                                     IF ys = <<>> THEN ys ELSE Tail(ys), v \div 32768)

\* xs - ys for xs >= ys
RECURSIVE BigSub(_, _, _)
BigSub(xs, ys, borrow) ==
    IF xs = <<>> THEN <<>>
    ELSE LET y == IF ys = <<>> THEN 0 ELSE Head(ys)
             v == Head(xs) - y - borrow
         IN  <<IF v < 0 THEN v + 32768 ELSE v>>
             \o BigSub(Tail(xs), IF ys = <<>> THEN ys ELSE Tail(ys), IF v < 0 THEN 1 ELSE 0)

RECURSIVE BigMul(_, _)
BigMul(xs, ys) ==
    IF ys = <<>> THEN <<>>
    ELSE BigAdd(BigScale(xs, Head(ys), 0), <<0>> \o BigMul(xs, Tail(ys)), 0)

RECURSIVE BigProd(_)
BigProd(ns) == IF ns = <<>> THEN <<1>> ELSE BigMul(ToBig(Head(ns)), BigProd(Tail(ns)))

RECURSIVE BigTrim(_)
BigTrim(xs) == IF xs # <<>> /\ xs[Len(xs)] = 0 THEN BigTrim(SubSeq(xs, 1, Len(xs) - 1)) ELSE xs

RECURSIVE BigLtFrom(_, _, _)
BigLtFrom(xs, ys, k) ==
    IF k = 0 THEN FALSE
    ELSE IF xs[k] # ys[k] THEN xs[k] < ys[k]
    ELSE BigLtFrom(xs, ys, k - 1)

BigLt(xs, ys) ==
    LET x == BigTrim(xs)
        y == BigTrim(ys)
    IN  IF Len(x) # Len(y) THEN Len(x) < Len(y) ELSE BigLtFrom(x, y, Len(x))

\* the product of the naturals ms is less than the product of the naturals ns
ProdLt(ms, ns) == BigLt(BigProd(ms), BigProd(ns))

RLt(a, b) ==
    IF a[1] < 0 /\ b[1] >= 0 THEN TRUE
    ELSE IF a[1] >= 0 /\ b[1] < 0 THEN FALSE
    ELSE IF a[1] >= 0 THEN ProdLt(<<a[1], b[2]>>, <<b[1], a[2]>>)
    ELSE ProdLt(<<-b[1], a[2]>>, <<-a[1], b[2]>>)
RLe(a, b) == ~RLt(b, a)
RMax(a, b) == IF RLt(a, b) THEN b ELSE a
RPos(a) == a[1] > 0

\* integer square root, one binary digit at a time (for n < 2^30)
RECURSIVE SqrtIter(_, _, _)
SqrtIter(n, bit, root) ==
    IF bit = 0 THEN root
    ELSE IF (root + bit) * (root + bit) <= n THEN SqrtIter(n, bit \div 2, root + bit)
    ELSE SqrtIter(n, bit \div 2, root)
ISqrt(n) == SqrtIter(n, 16384, 0)

\* 2-vectors of rationals (numpy arrays of shape (2,))
VAdd(u, v) == <<RAdd(u[1], v[1]), RAdd(u[2], v[2])>>
VSub(u, v) == <<RSub(u[1], v[1]), RSub(u[2], v[2])>>
VScale(u, k) == <<RMul(u[1], k), RMul(u[2], k)>>
VDivS(u, k) == <<RDiv(u[1], k), RDiv(u[2], k)>>
VNorm2(u) == RAdd(RMul(u[1], u[1]), RMul(u[2], u[2]))
Vec(x, y) == <<Q(x), Q(y)>>

(***************************************************************************)
(* simulation.py: constants and Body                                       *)
(***************************************************************************)
ToLen(x) == RMul(x, Q(100))
ToVel(x) == RMul(x, Frac(100, 1000))
ToLen2(x) == RMul(ToLen(x), ToLen(x))

G == Frac(98, 10)
SOFTENING == ToLen(Frac(1, 1000))
MASS_THRESHOLD == Q(20)

Body(ref, position, velocity, mass, radius2, color, body_type) ==
    [ref |-> ref, position |-> position, velocity |-> velocity, mass |-> mass,
     radius2 |-> radius2, color |-> color, body_type |-> body_type]

Range(s) == {s[k] : k \in 1..Len(s)}

(***************************************************************************)
(* merge_bodies                                                            *)
(***************************************************************************)
\* variants of merge_bodies that the properties below must tell from it:
\* position and velocity averaged without the mass weights
merge_bodies_plain_average(b1, b2, ref) ==
    LET total_mass == RAdd(b1.mass, b2.mass)
        pos == VScale(VAdd(b1.position, b2.position), Frac(1, 2))
        vel == VScale(VAdd(b1.velocity, b2.velocity), Frac(1, 2))
        radius2 == RAdd(b1.radius2, b2.radius2)
        body_type == IF b1.body_type = "blackhole" \/ b2.body_type = "blackhole"
                     THEN "blackhole"
                     ELSE IF RLe(b2.mass, b1.mass) THEN b1.body_type ELSE b2.body_type
        color == IF RLe(b2.mass, b1.mass) THEN b1.color ELSE b2.color
    IN  Body(ref, pos, vel, total_mass, radius2, color, body_type)

\* the kind of the heavier body also when the other one is a black hole
merge_bodies_heavier_kind(b1, b2, ref) ==
    LET total_mass == RAdd(b1.mass, b2.mass)
        pos == VDivS(VAdd(VScale(b1.position, b1.mass), VScale(b2.position, b2.mass)), total_mass)
        vel == VDivS(VAdd(VScale(b1.velocity, b1.mass), VScale(b2.velocity, b2.mass)), total_mass)
        radius2 == RAdd(b1.radius2, b2.radius2)
        body_type == IF RLe(b2.mass, b1.mass) THEN b1.body_type ELSE b2.body_type
        color == IF RLe(b2.mass, b1.mass) THEN b1.color ELSE b2.color
    IN  Body(ref, pos, vel, total_mass, radius2, color, body_type)

\* the radius of the first body instead of the combined one
merge_bodies_first_radius(b1, b2, ref) ==
    LET total_mass == RAdd(b1.mass, b2.mass)
        pos == VDivS(VAdd(VScale(b1.position, b1.mass), VScale(b2.position, b2.mass)), total_mass)
        vel == VDivS(VAdd(VScale(b1.velocity, b1.mass), VScale(b2.velocity, b2.mass)), total_mass)
        radius2 == b1.radius2
        body_type == IF b1.body_type = "blackhole" \/ b2.body_type = "blackhole"
                     THEN "blackhole"
                     ELSE IF RLe(b2.mass, b1.mass) THEN b1.body_type ELSE b2.body_type
        color == IF RLe(b2.mass, b1.mass) THEN b1.color ELSE b2.color
    IN  Body(ref, pos, vel, total_mass, radius2, color, body_type)

\* the radii subtracted under the root instead of added
merge_bodies_radius_difference(b1, b2, ref) ==
    LET total_mass == RAdd(b1.mass, b2.mass)
        pos == VDivS(VAdd(VScale(b1.position, b1.mass), VScale(b2.position, b2.mass)), total_mass)
        vel == VDivS(VAdd(VScale(b1.velocity, b1.mass), VScale(b2.velocity, b2.mass)), total_mass)
        radius2 == RSub(b1.radius2, b2.radius2)
        body_type == IF b1.body_type = "blackhole" \/ b2.body_type = "blackhole"
                     THEN "blackhole"
                     ELSE IF RLe(b2.mass, b1.mass) THEN b1.body_type ELSE b2.body_type
        color == IF RLe(b2.mass, b1.mass) THEN b1.color ELSE b2.color
    IN  Body(ref, pos, vel, total_mass, radius2, color, body_type)

merge_bodies(b1, b2, ref) ==
    LET total_mass == RAdd(b1.mass, b2.mass)
        pos == VDivS(VAdd(VScale(b1.position, b1.mass), VScale(b2.position, b2.mass)), total_mass)
        vel == VDivS(VAdd(VScale(b1.velocity, b1.mass), VScale(b2.velocity, b2.mass)), total_mass)
        radius2 == RAdd(b1.radius2, b2.radius2)
        body_type == IF b1.body_type = "blackhole" \/ b2.body_type = "blackhole"
                     THEN "blackhole"
                     ELSE IF RLe(b2.mass, b1.mass) THEN b1.body_type ELSE b2.body_type
        color == IF RLe(b2.mass, b1.mass) THEN b1.color ELSE b2.color
    IN  Body(ref, pos, vel, total_mass, radius2, color, body_type)

(***************************************************************************)
(* handle_collisions                                                       *)
(***************************************************************************)
\* dist < r1 + r2 with dist = sqrt(d2), r1 = sqrt(R1), r2 = sqrt(R2) and S = R1 + R2:
\* d2 < S + 2*r1*r2.  As 0 <= 2*r1*r2 <= S this holds when d2 < S, fails when d2 >= 2*S,
\* and in between holds exactly when t^2 < 4*R1*R2 for t = d2 - S.  A coordinate difference
\* whose square alone reaches 2*S settles d2 >= 2*S.  With r = <<a/p, b/q>> and S = s/e the
\* three comparisons are made on the numerators over the common denominator D*e, D = p^2*q^2.
Overlaps(bi, bj) ==
    LET r == VSub(bi.position, bj.position)
        S == RAdd(bi.radius2, bj.radius2)
        far(c) == Floor(<<Abs(c[1]), c[2]>>) > ISqrt(2 * (Floor(S) + 1))
        a == Abs(r[1][1])
        b == Abs(r[2][1])
        p == r[1][2]
        q == r[2][2]
        D == BigProd(<<p, p, q, q>>)
        d2e == BigMul(BigAdd(BigProd(<<a, a, q, q>>), BigProd(<<b, b, p, p>>), 0), ToBig(S[2]))
        SD == BigMul(ToBig(S[1]), D)
        t == BigSub(d2e, SD, 0)
        De == BigMul(D, ToBig(S[2]))
    IN  IF far(r[1]) \/ far(r[2]) THEN FALSE
        ELSE IF BigLt(d2e, SD) THEN TRUE
        ELSE IF ~BigLt(d2e, BigScale(SD, 2, 0)) THEN FALSE
        ELSE BigLt(BigMul(BigMul(t, t), BigProd(<<bi.radius2[2], bj.radius2[2]>>)),
                   BigMul(BigMul(De, De), BigProd(<<4, bi.radius2[1], bj.radius2[1]>>)))

\* a variant of the inner loop that breaks at the last overlapping j instead of the first
InnerScanLast(bs, i, from, merged_flags) ==
    LET hits == {j \in from..Len(bs) : j \notin merged_flags /\ Overlaps(bs[i], bs[j])}
    IN  IF hits = {} THEN 0 ELSE CHOOSE j \in hits : \A k \in hits : j >= k

\* a variant of the inner loop that starts one index late, at i + 2
InnerScanSkipsNeighbour(bs, i, from, merged_flags) ==
    LET hits == {j \in (from + 1)..Len(bs) : j \notin merged_flags /\ Overlaps(bs[i], bs[j])}
    IN  IF hits = {} THEN 0 ELSE CHOOSE j \in hits : \A k \in hits : j <= k

\* the inner loop: the j at which it breaks, the first j >= from that is not yet merged and
\* overlaps body i; 0 when the loop ends without a break
InnerScan(bs, i, from, merged_flags) ==
    LET hits == {j \in from..Len(bs) : j \notin merged_flags /\ Overlaps(bs[i], bs[j])}
    IN  IF hits = {} THEN 0 ELSE CHOOSE j \in hits : \A k \in hits : j <= k

\* the body of the inner `if dist < ...`: the merged body with the black-hole override
MergeInPass(bi, bj, ref) ==
    IF bi.body_type = "blackhole" \/ bj.body_type = "blackhole"
    THEN [merge_bodies(bi, bj, ref) EXCEPT !.body_type = "blackhole", !.color = "black"]
    ELSE merge_bodies(bi, bj, ref)

\* a variant of the flash color that goes to the second body on equal masses
FinalColorSecond(bi, bj) == IF RLt(bj.mass, bi.mass) THEN bi.color ELSE bj.color

FinalColor(bi, bj) == IF RLe(bj.mass, bi.mass) THEN bi.color ELSE bj.color

\* the outer loop; st carries the locals of handle_collisions (input is the list passed in,
\* pairs is the log of the index pairs added to merged_flags, in order)
RECURSIVE OuterLoop(_, _)
OuterLoop(i, st) ==
    IF i > Len(st.input) THEN st
    ELSE IF i \in st.merged_flags THEN OuterLoop(i + 1, st)
    ELSE LET bi == st.input[i]
             Merged(j, merged) ==
                 [st EXCEPT !.new_bodies = Append(@, merged),
                            !.flashes = Append(@, [body |-> merged,
                                                   final_color |-> FinalColor(bi, st.input[j])]),
                            !.merged_flags = @ \cup {i, j},
                            !.pairs = Append(@, <<i, j>>),
                            !.ref = @ + 1]
             Found(j) ==
                 IF j # 0 THEN Merged(j, MergeInPass(bi, st.input[j], st.ref))
                 ELSE [st EXCEPT !.new_bodies = Append(@, bi)]
         IN  OuterLoop(i + 1, Found(InnerScan(st.input, i, i + 1, st.merged_flags)))

\* a variant of handle_collisions that returns no body when it is given at most one
handle_collisions_drop_single(bs, ref) ==
    LET st0 == [input |-> bs, merged_flags |-> {}, new_bodies |-> <<>>, flashes |-> <<>>,
                pairs |-> <<>>, ref |-> ref]
    IN  IF Len(bs) <= 1 THEN st0
        ELSE OuterLoop(1, st0)

\* a variant of handle_collisions that returns the new list in reverse order
RECURSIVE Reverse(_)
Reverse(s) == IF s = <<>> THEN s ELSE Reverse(Tail(s)) \o <<Head(s)>>

handle_collisions_reversed(bs, ref) ==
    LET st0 == [input |-> bs, merged_flags |-> {}, new_bodies |-> <<>>, flashes |-> <<>>,
                pairs |-> <<>>, ref |-> ref]
    IN  IF Len(bs) <= 1 THEN [st0 EXCEPT !.new_bodies = bs]
        ELSE [OuterLoop(1, st0) EXCEPT !.new_bodies = Reverse(@)]

handle_collisions(bs, ref) ==
    LET st0 == [input |-> bs, merged_flags |-> {}, new_bodies |-> <<>>, flashes |-> <<>>,
                pairs |-> <<>>, ref |-> ref]
    IN  IF Len(bs) <= 1 THEN [st0 EXCEPT !.new_bodies = bs]
        ELSE OuterLoop(1, st0)

(***************************************************************************)
(* accel                                                                   *)
(***************************************************************************)
\* a numpy array: the elements are computed once, when the array is built
Array(f) == SubSeq(f, 1, Len(f))

\* the element of a one-element set: {F(x) : x \in {e}} is F on the value of e, computed
\* once, as an assignment x = e followed by F(x) does
Only(S) == CHOOSE x \in S : TRUE

\* floor(4 * (x - y)) for x >= y, from the integer parts and the fractional parts of 4x and 4y
FloorDiff4(x, y) ==
    LET x4 == RMul(x, Q(4))
        y4 == RMul(y, Q(4))
    IN  Floor(x4) - Floor(y4)
        - (IF ProdLt(<<x4[1] % x4[2], y4[2]>>, <<y4[1] % y4[2], x4[2]>>) THEN 1 ELSE 0)

\* a separation positions[j] - positions[i] in the precision of the model: each coordinate
\* difference x - y cut toward zero to a multiple of 1/4
Cut4(x, y) == IF RLt(x, y) THEN Frac(-FloorDiff4(y, x), 4) ELSE Frac(FloorDiff4(x, y), 4)
Sep(pj, pi) == <<Cut4(pj[1], pi[1]), Cut4(pj[2], pi[2])>>

\* (np.sum(r * r) + eps**2) ** (-1.5) in the precision of the model.  With x = |r|^2 + eps^2,
\* x^(-1.5) = 1 / (x * sqrt(x)) is evaluated on n = floor(100 * x), x cut to two decimals,
\* as 1000 / (n * floor(sqrt(n))) and cut to a multiple of 1/256: for coincident bodies
\* (x = eps^2 = 1/100 in model units) it is eps^(-3) = 1000 exactly, and it is 0 once
\* n * floor(sqrt(n)) > 256000, which a coordinate difference of 7 or more ensures.
InvDist3(r, eps) ==
    IF Floor(<<Abs(r[1][1]), r[1][2]>>) >= 7 \/ Floor(<<Abs(r[2][1]), r[2][2]>>) >= 7 THEN Zero
    ELSE LET x == RAdd(VNorm2(r), RMul(eps, eps))
             n == Floor(RMul(x, Q(100)))
         IN  Frac((256000 \div n) \div ISqrt(n), 256)

\* r * inv_dist3 * masses for one pair; np.fill_diagonal(inv_dist3, 0.0)
Term(r, m, diagonal, eps) ==
    VScale(VScale(r, IF diagonal THEN Zero ELSE InvDist3(r, eps)), m)

\* np.sum over the terms lo..hi of one row (numpy sums pairwise)
RECURSIVE Sum(_, _, _)
Sum(terms, lo, hi) ==
    IF lo = hi THEN terms[lo]
    ELSE VAdd(Sum(terms, lo, (lo + hi) \div 2), Sum(terms, (lo + hi) \div 2 + 1, hi))

\* np.sum(r * inv_dist3 * masses, axis=1) for row i
SumTerms(positions, masses, i, eps) ==
    Sum(Array([j \in 1..Len(positions) |->
            Only({Term(r, masses[j], i = j, eps) : r \in {Sep(positions[j], positions[i])}})]),
        1, Len(positions))

\* g * a cut toward zero to a whole number, without forming the product g[1] * a[1]
FlMul(g, a) ==
    LET q == Abs(a[1]) \div a[2]
        rem == Abs(a[1]) % a[2]
        m == (g[1] * q + (g[1] * rem) \div a[2]) \div g[2]
    IN  Q(IF a[1] < 0 THEN -m ELSE m)

\* G_const * np.sum(...), kept to whole model units
accel(positions, masses, G_const, eps) ==
    Array([i \in 1..Len(positions) |->
        Only({<<FlMul(G_const, sum[1]), FlMul(G_const, sum[2])>> :
                 sum \in {SumTerms(positions, masses, i, eps)}})])

(***************************************************************************)
(* velocity_verlet_step                                                    *)
(***************************************************************************)
Half == Frac(1, 2)

\* v + 0.5 * a * dt, for every body
Kick(v, a, dt) == Array([i \in 1..Len(v) |-> VAdd(v[i], VScale(VScale(a[i], Half), dt))])

\* positions + velocities_half * dt
Drift(positions, velocities_half, dt) ==
    Array([i \in 1..Len(positions) |-> VAdd(positions[i], VScale(velocities_half[i], dt))])

\* the write-back loop
WriteBack(bs, positions_new, velocities_new) ==
    Array([i \in 1..Len(bs) |-> [bs[i] EXCEPT !.position = positions_new[i],
                                             !.velocity = velocities_new[i]]])

\* a variant of the step that advances the bodies one after the other, each one seeing the
\* bodies before it in the list where they already moved to
PositionsOf(bs) == Array([i \in 1..Len(bs) |-> bs[i].position])
MassesOf(bs) == Array([i \in 1..Len(bs) |-> bs[i].mass])
AccelOn(bs, i) == accel(PositionsOf(bs), MassesOf(bs), G, SOFTENING)[i]
MoveOne(bs, dt, i, a) ==
    [bs EXCEPT ![i].velocity = VAdd(@, VScale(VScale(a, Half), dt)),
               ![i].position = VAdd(@, VScale(VAdd(bs[i].velocity, VScale(VScale(a, Half), dt)), dt))]
KickOne(bs, dt, i, a_new) == [bs EXCEPT ![i].velocity = VAdd(@, VScale(VScale(a_new, Half), dt))]

RECURSIVE InTurn(_, _, _)
InTurn(bs, dt, i) ==
    IF i > Len(bs) THEN bs
    ELSE InTurn(Only({KickOne(moved, dt, i, AccelOn(moved, i)) :
                         moved \in {MoveOne(bs, dt, i, AccelOn(bs, i))}}), dt, i + 1)

velocity_verlet_step_in_turn(bs, dt) == InTurn(bs, dt, 1)

\* each assignment of the function binds the value of its right-hand side
velocity_verlet_step(bs, dt) ==
    IF bs = <<>> THEN bs
    ELSE LET positions == Array([i \in 1..Len(bs) |-> bs[i].position])
             velocities == Array([i \in 1..Len(bs) |-> bs[i].velocity])
             masses == Array([i \in 1..Len(bs) |-> bs[i].mass])
         IN  Only({Only({Only({Only({
                 WriteBack(bs, positions_new, Kick(velocities_half, a_new, dt)) :
                     a_new \in {accel(positions_new, masses, G, SOFTENING)}}) :
                     positions_new \in {Drift(positions, velocities_half, dt)}}) :
                     velocities_half \in {Kick(velocities, a, dt)}}) :
                     a \in {accel(positions, masses, G, SOFTENING)}})

(***************************************************************************)
(* trigger_supernova                                                       *)
(***************************************************************************)
\* bodies.remove(star): drops the first element that is the object star; ValueError is swallowed
RECURSIVE IndexOf(_, _, _)
IndexOf(bs, ref, k) ==
    IF k > Len(bs) THEN 0 ELSE IF bs[k].ref = ref THEN k ELSE IndexOf(bs, ref, k + 1)

\* a variant of the removal that drops the head of the list whatever the star is
RemoveFirst(bs, star) == IF bs = <<>> THEN bs ELSE Tail(bs)

Remove(bs, star) ==
    LET k == IndexOf(bs, star.ref, 1)
    IN  IF k = 0 THEN bs ELSE SubSeq(bs, 1, k - 1) \o SubSeq(bs, k + 1, Len(bs))

\* radius = max(0.02, sqrt(m) * 0.03), squared
FragRadius2(m) == RMax(ToLen2(Frac(2, 100)), RMul(m, ToLen2(Frac(3, 100))))

Fragment(pos, vel, d, ref) ==
    Body(ref, VAdd(pos, d.offset), VAdd(vel, d.dv), d.m, FragRadius2(d.m), d.color, "planet")

Remnant(pos, vel, star, is_bh, ref) ==
    IF is_bh
    THEN Body(ref, pos, vel, RMul(star.mass, Frac(4, 10)),
              RMax(ToLen2(Frac(5, 100)), RMul(star.radius2, Frac(36, 100))), "darkgray", "blackhole")
    ELSE Body(ref, pos, vel, RMul(star.mass, Frac(2, 10)),
              RMax(ToLen2(Frac(4, 100)), RMul(star.radius2, Frac(25, 100))), "blue", "star")

\* a variant of trigger_supernova whose guard also stops a star of exactly the threshold mass
trigger_supernova_at_threshold(bs, star, draw, ref) ==
    IF RLe(star.mass, MASS_THRESHOLD) THEN [bodies |-> bs, result |-> <<>>]
    ELSE LET pos == star.position
             vel == star.velocity
             fragments == [k \in 1..draw.n_frags |-> Fragment(pos, vel, draw.frags[k], ref + k - 1)]
             remnant == Remnant(pos, vel, star, draw.is_bh, ref + draw.n_frags)
         IN  [bodies |-> Remove(bs, star), result |-> fragments \o <<remnant>>]

\* draw holds the values the random generator returns during the call:
\* n_frags, one record per fragment (m, dv, offset, color) and the remnant branch
trigger_supernova(bs, star, draw, ref) ==
    IF RLt(star.mass, MASS_THRESHOLD) THEN [bodies |-> bs, result |-> <<>>]
    ELSE LET pos == star.position
             vel == star.velocity
             fragments == [k \in 1..draw.n_frags |-> Fragment(pos, vel, draw.frags[k], ref + k - 1)]
             remnant == Remnant(pos, vel, star, draw.is_bh, ref + draw.n_frags)
         IN  [bodies |-> Remove(bs, star), result |-> fragments \o <<remnant>>]

(***************************************************************************)
(* The callers' inputs                                                     *)
(***************************************************************************)
\* the bodies a caller creates (gui.py add_body), in model units
Template(k) ==
    CASE k = 1 -> Body(0, Vec(0, 0), Vec(0, 0), Q(1), Q(25), "cyan", "planet")
      [] k = 2 -> Body(0, Vec(8, 0), Vec(0, 1), Q(1), Q(25), "pink", "star")
      [] k = 3 -> Body(0, Vec(10, 0), Vec(0, -1), Q(20), Q(25), "yellow", "star")
      [] k = 4 -> Body(0, Vec(4, 0), Vec(0, 0), Q(1), Q(4), "black", "blackhole")

Templates == 1..4

\* the body lists a caller builds: up to MaxBodies bodies, no template twice
InitialSets ==
    {f \in UNION {[1..n -> Templates] : n \in 0..MaxBodies} :
        \A i, j \in 1..Len(f) : i # j => f[i] # f[j]}

\* the time steps a caller passes
DtSet == {Q(1), Q(2)}

\* the values np.random returns for one fragment: m in [0.05, 1.5), v - vel in [-2, 2)^2,
\* offset in [-0.5, 0.5)^2 and one of the four colors
FragDraw(k) ==
    IF k = 1
    THEN [m |-> Frac(1, 2), dv |-> <<ToVel(Q(-2)), ToVel(Q(1))>>,
          offset |-> <<ToLen(Frac(-3, 100)), Zero>>, color |-> "orange"]
    ELSE [m |-> Q(1), dv |-> <<ToVel(Q(1)), ToVel(Q(-1))>>,
          offset |-> <<ToLen(Frac(4, 100)), ToLen(Frac(4, 100))>>, color |-> "white"]

\* np.random.randint(6, 12) returns 6..11; the model draws the two extremes
NFrags == {6, 11}

\* what the generator returns during one call: the two fragment draws alternate
Draws ==
    {[n_frags |-> n, frags |-> [k \in 1..n |-> IF k % 2 = 1 THEN FragDraw(1) ELSE FragDraw(2)],
      is_bh |-> bh] :
        n \in NFrags, bh \in BOOLEAN}

NoCall == [op |-> "none", pre |-> <<>>, input |-> <<>>, out |-> <<>>, flashes |-> <<>>,
           pairs |-> <<>>, args |-> <<>>, result |-> <<>>]

(***************************************************************************)
(* The state machine: the caller owns the list `bodies` and calls the core *)
(***************************************************************************)
Init ==
    /\ \E f \in InitialSets :
          bodies = [k \in 1..Len(f) |-> [Template(f[k]) EXCEPT !.ref = k]]
    /\ nextRef = Len(bodies) + 1
    /\ last = NoCall
    /\ steps = 0
    /\ novas = 0

\* the part of the plane the model follows the bodies in: coordinates up to MaxCoord
InWindow(bs) ==
    \A k \in 1..Len(bs) : \A c \in 1..2 :
        Abs(bs[k].position[c][1]) <= MaxCoord * bs[k].position[c][2]

\* the precision the model follows a step in: coordinates and velocity components that are
\* multiples of 1/d for some d up to MaxDenom
InPrecision(bs) ==
    \A k \in 1..Len(bs) : \A c \in 1..2 :
        bs[k].position[c][2] <= MaxDenom /\ bs[k].velocity[c][2] <= MaxDenom

\* velocity_verlet_step(self.bodies, dt): the bodies are advanced in place
VerletStep ==
    /\ steps < MaxSteps
    /\ Len(bodies) <= MaxBodies
    /\ InPrecision(bodies)
    /\ \E dt \in DtSet :
          \E stepped \in {velocity_verlet_step(bodies, dt)} :
              /\ InWindow(stepped)
              /\ bodies' = stepped
              /\ last' = [NoCall EXCEPT !.op = "verlet", !.pre = bodies, !.args = <<dt>>]
    /\ steps' = steps + 1
    /\ UNCHANGED <<nextRef, novas>>

\* new_bodies, flashes = handle_collisions(self.bodies); self.bodies = new_bodies
Collide ==
    \E st \in {handle_collisions(bodies, nextRef)} :
        /\ bodies' = st.new_bodies
        /\ last' = [NoCall EXCEPT !.op = "collide", !.pre = bodies, !.input = st.input,
                                  !.out = st.new_bodies, !.flashes = st.flashes, !.pairs = st.pairs]
        /\ nextRef' = st.ref
        /\ UNCHANGED <<steps, novas>>

\* merge_bodies(b1, b2) on two bodies of the set; the result is returned to the caller only
MergeCall ==
    \E i \in 1..Len(bodies), j \in 1..Len(bodies) :
        /\ Len(bodies) <= MaxBodies
        /\ i # j
        /\ last' = [NoCall EXCEPT !.op = "merge", !.pre = bodies, !.args = <<bodies[i], bodies[j]>>,
                                  !.result = <<merge_bodies(bodies[i], bodies[j], nextRef)>>]
        /\ UNCHANGED <<bodies, nextRef, steps, novas>>

\* the bodies a caller flags for a supernova are stars (trigger_supernova_button); by the
\* time the countdown ends the star is still in the set, or the last collision pass has
\* dropped it
Targets ==
    {b \in Range(bodies) \cup (IF last.op = "collide" THEN Range(last.pre) ELSE {}) :
        b.body_type = "star"}

\* frags = trigger_supernova(self.bodies, body); for f in frags: self.bodies.append(f)
\* (below the threshold the generator is not used: any draw gives the same call)
Supernova ==
    /\ Len(bodies) <= MaxBodies
    /\ \E star \in Targets :
          /\ ~RLt(star.mass, MASS_THRESHOLD) => novas < MaxNovas
          /\ \E draw \in (IF RLt(star.mass, MASS_THRESHOLD) THEN {CHOOSE d \in Draws : TRUE} ELSE Draws) :
                \E r \in {trigger_supernova(bodies, star, draw, nextRef)} :
                    /\ bodies' = r.bodies \o r.result
                    /\ last' = [NoCall EXCEPT !.op = "supernova", !.pre = bodies, !.args = <<star>>,
                                              !.input = r.bodies, !.result = r.result]
                    /\ nextRef' = nextRef + Len(r.result)
                    /\ novas' = IF Len(r.result) > 0 THEN novas + 1 ELSE novas
                    /\ UNCHANGED steps

Next == VerletStep \/ Collide \/ Supernova \/ MergeCall

Spec == Init /\ [][Next]_vars

(***************************************************************************)
(* handle_collisions applied to its own output, pass after pass.  The sets *)
(* it starts from are the callers' sets and the same sets after a          *)
(* supernova of one of their stars; steps counts the passes made and       *)
(* last.args keeps the set the passes started from.                        *)
(***************************************************************************)
StartSets ==
    LET callers == {[k \in 1..Len(f) |-> [Template(f[k]) EXCEPT !.ref = k]] : f \in InitialSets}
        Exploded(bs) ==
            {r.bodies \o r.result :
                r \in {trigger_supernova(bs, star, draw, Len(bs) + 1) :
                          star \in {b \in Range(bs) : b.body_type = "star"}, draw \in Draws}}
    IN  callers \cup UNION {Exploded(bs) : bs \in callers}

MaxRef(bs) == IF bs = <<>> THEN 0 ELSE CHOOSE n \in {bs[k].ref : k \in 1..Len(bs)} :
                                           \A k \in 1..Len(bs) : bs[k].ref <= n

InitPasses ==
    /\ bodies \in StartSets
    /\ nextRef = MaxRef(bodies) + 1
    /\ last = NoCall
    /\ steps = 0
    /\ novas = 0

\* bodies, flashes = handle_collisions(bodies), once more
Pass ==
    /\ steps < MaxPasses
    /\ \E st \in {handle_collisions(bodies, nextRef)} :
          /\ bodies' = st.new_bodies
          /\ last' = [NoCall EXCEPT !.op = "collide", !.pre = bodies, !.input = st.input,
                                    !.out = st.new_bodies, !.flashes = st.flashes, !.pairs = st.pairs,
                                    !.args = IF steps = 0 THEN <<bodies>> ELSE last.args]
          /\ nextRef' = st.ref
    /\ steps' = steps + 1
    /\ UNCHANGED novas

SpecPasses == InitPasses /\ [][Pass]_vars

(***************************************************************************)
(* Properties.  last holds the most recent call: its op, the caller's list *)
(* before it (pre), and what the call saw and returned.                    *)
(***************************************************************************)
RECURSIVE TotalMass(_)
TotalMass(bs) == IF bs = <<>> THEN Zero ELSE RAdd(Head(bs).mass, TotalMass(Tail(bs)))

RECURSIVE TotalMomentum(_)
TotalMomentum(bs) ==
    IF bs = <<>> THEN <<Zero, Zero>>
    ELSE VAdd(VScale(Head(bs).velocity, Head(bs).mass), TotalMomentum(Tail(bs)))

\* M carries the mass, the momentum and the mass moment of A and B together
Conserves(A, B, M) ==
    /\ M.mass = RAdd(A.mass, B.mass)
    /\ VScale(M.velocity, M.mass) = VAdd(VScale(A.velocity, A.mass), VScale(B.velocity, B.mass))
    /\ VScale(M.position, M.mass) = VAdd(VScale(A.position, A.mass), VScale(B.position, B.mass))

\* the bodies of the returned list that the pass created, in the order of the list
CreatedBodies ==
    LET IsNew(b) == b \notin Range(last.input)
    IN  SelectSeq(last.out, IsNew)

\* the indices of the input that the first n merges of the pass consumed
Consumed(n) == UNION {{last.pairs[m][1], last.pairs[m][2]} : m \in 1..n}

\* the two bodies of the n-th merge of the pass
First(n) == last.input[last.pairs[n][1]]
Second(n) == last.input[last.pairs[n][2]]

Merges == 1..Len(last.pairs)

\* C1: merge_bodies returns the sum of the masses and keeps momentum and the centre of mass
\* (mass times velocity and mass times position add up); a handle_collisions pass leaves the
\* total mass and the total momentum of the set unchanged.
C1_MergeConserves ==
    /\ last.op = "merge" => Conserves(last.args[1], last.args[2], last.result[1])
    /\ last.op = "collide" =>
          /\ Len(CreatedBodies) = Len(last.pairs)
          /\ \A n \in Merges : Conserves(First(n), Second(n), CreatedBodies[n])
          /\ TotalMass(last.out) = TotalMass(last.pre)
          /\ TotalMomentum(last.out) = TotalMomentum(last.pre)

\* a pass that merged two bodies of different mass in a set with momentum
C1_Witness ==
    /\ last.op = "collide"
    /\ \E n \in Merges : First(n).mass # Second(n).mass /\ First(n).velocity # Second(n).velocity
    /\ TotalMomentum(last.pre) # <<Zero, Zero>>

\* the kind the merge of a (first) and b (second) is to have
KindRule(a, b) ==
    IF a.body_type = "blackhole" \/ b.body_type = "blackhole" THEN "blackhole"
    ELSE IF RLt(a.mass, b.mass) THEN b.body_type
    ELSE a.body_type

\* C2: the merged kind is blackhole when either input is one, whatever the masses and the
\* order; otherwise it is the kind of the strictly heavier input and, on equal masses, of the
\* first one - for merge_bodies and for every merge of a handle_collisions pass.
C2_MergedKind ==
    /\ last.op = "merge" => last.result[1].body_type = KindRule(last.args[1], last.args[2])
    /\ last.op = "collide" =>
          /\ Len(CreatedBodies) = Len(last.pairs)
          /\ \A n \in Merges : CreatedBodies[n].body_type = KindRule(First(n), Second(n))

\* a black hole merged with a heavier body that is none
C2_Witness ==
    /\ last.op \in {"merge", "collide"}
    /\ \/ /\ last.op = "merge"
          /\ last.args[2].body_type = "blackhole"
          /\ last.args[1].body_type = "star"
          /\ RLt(last.args[2].mass, last.args[1].mass)
       \/ /\ last.op = "collide"
          /\ \E n \in Merges :
                /\ First(n).body_type = "blackhole"
                /\ Second(n).body_type # "blackhole"
                /\ RLt(First(n).mass, Second(n).mass)

\* the distance of the two bodies is exactly the sum of their radii: with d2 the squared
\* distance, S = R1 + R2 the sum of the squared radii and t = d2 - S, t >= 0 and
\* t^2 = 4 * R1 * R2 (numerators over the common denominator, as in Overlaps)
Touching(bi, bj) ==
    LET r == VSub(bi.position, bj.position)
        S == RAdd(bi.radius2, bj.radius2)
        a == Abs(r[1][1])
        b == Abs(r[2][1])
        p == r[1][2]
        q == r[2][2]
        D == BigProd(<<p, p, q, q>>)
        d2e == BigMul(BigAdd(BigProd(<<a, a, q, q>>), BigProd(<<b, b, p, p>>), 0), ToBig(S[2]))
        SD == BigMul(ToBig(S[1]), D)
        t == BigSub(d2e, SD, 0)
        De == BigMul(D, ToBig(S[2]))
    IN  /\ ~BigLt(d2e, SD)
        /\ BigTrim(BigMul(BigMul(t, t), BigProd(<<bi.radius2[2], bj.radius2[2]>>)))
             = BigTrim(BigMul(BigMul(De, De), BigProd(<<4, bi.radius2[1], bj.radius2[1]>>)))

\* C3: in one pass no input body is in two merges; the merges are found in ascending order
\* of i; body i merges with the lowest j > i that is not consumed yet and is strictly closer
\* than the sum of the radii, and a body left unmerged has no such j; bodies that exactly
\* touch are not merged with each other.
C3_OneMergePerBody ==
    last.op = "collide" =>
        /\ \A m, n \in Merges :
              m # n => {last.pairs[m][1], last.pairs[m][2]} \cap {last.pairs[n][1], last.pairs[n][2]} = {}
        /\ \A n \in Merges :
              LET i == last.pairs[n][1]
                  j == last.pairs[n][2]
              IN  /\ 1 <= i /\ i < j /\ j <= Len(last.input)
                  /\ n > 1 => last.pairs[n - 1][1] < i
                  /\ Overlaps(last.input[i], last.input[j])
                  /\ \A k \in (i + 1)..(j - 1) :
                        k \in Consumed(n - 1) \/ ~Overlaps(last.input[i], last.input[k])
        /\ \A i \in 1..Len(last.input) :
              i \notin Consumed(Len(last.pairs)) =>
                  \A k \in (i + 1)..Len(last.input) :
                      Overlaps(last.input[i], last.input[k]) =>
                          \E n \in Merges : last.pairs[n][1] < i /\ k \in {last.pairs[n][1], last.pairs[n][2]}
        /\ \A n \in Merges : ~Touching(First(n), Second(n))

\* a pass in which a body overlapped two bodies that were both still free, and merged with
\* the lower one only
C3_Witness ==
    /\ last.op = "collide"
    /\ \E n \in Merges :
          \E k \in (last.pairs[n][2] + 1)..Len(last.input) :
              /\ k \notin Consumed(n - 1)
              /\ Overlaps(First(n), last.input[k])

\* C4: trigger_supernova on a target lighter than 20.0 returns the empty list and leaves the
\* set as it was; a target of mass exactly 20.0 explodes.
C4_BelowThresholdNoOp ==
    last.op = "supernova" =>
        /\ RLt(last.args[1].mass, Q(20)) =>
              /\ last.result = <<>>
              /\ bodies = last.pre
              /\ last.input = last.pre
        /\ last.args[1].mass = Q(20) => Len(last.result) > 0

\* a call on a star below the threshold that is in a set of two
C4_Witness ==
    /\ last.op = "supernova"
    /\ RLt(last.args[1].mass, Q(20))
    /\ last.args[1] \in Range(last.pre)
    /\ Len(last.pre) = 2

\* C5: trigger_supernova on a target of mass M >= 20.0 that is in the set removes it and
\* returns 7 to 13 bodies: k planets, 6 <= k <= 11, then one remnant, a black hole of mass
\* 0.4 * M or a star of mass 0.2 * M, at the target's position with the target's velocity;
\* the other bodies of the set stay, unchanged and in order.
C5_SupernovaOutput ==
    (last.op = "supernova" /\ ~RLt(last.args[1].mass, Q(20)) /\ last.args[1] \in Range(last.pre)) =>
        LET star == last.args[1]
            k == Len(last.result) - 1
            remnant == last.result[Len(last.result)]
            Other(b) == b # star
        IN  /\ star \notin Range(bodies)
            /\ Len(last.result) \in 7..13
            /\ k \in 6..11
            /\ \A n \in 1..k : last.result[n].body_type = "planet"
            /\ remnant.position = star.position
            /\ remnant.velocity = star.velocity
            /\ \/ remnant.body_type = "blackhole" /\ remnant.mass = RMul(star.mass, Frac(4, 10))
               \/ remnant.body_type = "star" /\ remnant.mass = RMul(star.mass, Frac(2, 10))
            /\ last.input = SelectSeq(last.pre, Other)
            /\ bodies = last.input \o last.result

\* an explosion of the second body of a set of two, with eleven fragments and a black hole
C5_Witness ==
    /\ last.op = "supernova"
    /\ Len(last.pre) = 2
    /\ last.args[1] = last.pre[2]
    /\ Len(last.result) = 12
    /\ last.result[12].body_type = "blackhole"

\* the elements of s at the indices in keep, in order
RECURSIVE Pick(_, _, _)
Pick(s, keep, k) ==
    IF k > Len(s) THEN <<>>
    ELSE (IF k \in keep THEN <<s[k]>> ELSE <<>>) \o Pick(s, keep, k + 1)

\* C6: the bodies a pass does not merge are in the returned list as the same records and in
\* their input order; the returned list has as many bodies as the input less the number of
\* merges; the input list is not changed.
C6_UnmergedCarriedOver ==
    last.op = "collide" =>
        LET FromInput(b) == b.ref \in {last.input[k].ref : k \in 1..Len(last.input)}
        IN  /\ SelectSeq(last.out, FromInput)
                 = Pick(last.input, (1..Len(last.input)) \ Consumed(Len(last.pairs)), 1)
            /\ Len(last.out) = Len(last.input) - Len(last.pairs)
            /\ last.input = last.pre
            /\ bodies = last.out

\* a pass with a merge that carried two or more bodies over
C6_Witness ==
    /\ last.op = "collide"
    /\ Len(last.pairs) >= 1
    /\ Len(last.input) - 2 * Len(last.pairs) >= 2

\* the tag of the heavier of a (first) and b (second), of a on equal masses
HeavierTag(a, b) == IF RLt(a.mass, b.mass) THEN b.color ELSE a.color

\* C7: a pass returns one flash hint per merge, for the merged body that is in the returned
\* list, with the tag of the heavier merged body (the first on equal masses) as final color,
\* black holes included; no hint is for a body carried over.
C7_FlashPerMerge ==
    last.op = "collide" =>
        /\ Len(last.flashes) = Len(last.pairs)
        /\ Len(CreatedBodies) = Len(last.pairs)
        /\ \A n \in Merges :
              /\ last.flashes[n].body = CreatedBodies[n]
              /\ last.flashes[n].final_color = HeavierTag(First(n), Second(n))
        /\ \A n \in 1..Len(last.flashes) : last.flashes[n].body \notin Range(last.input)
        /\ \A b \in Range(last.out) :
              Cardinality({n \in 1..Len(last.flashes) : last.flashes[n].body = b})
                  = IF b \in Range(last.input) THEN 0 ELSE 1

\* a pass with two merges, one of them of two bodies of equal mass and different tags
C7_Witness ==
    /\ last.op = "collide"
    /\ Len(last.pairs) >= 2
    /\ \E n \in Merges : First(n).mass = Second(n).mass /\ First(n).color # Second(n).color

\* C8: in a merge of a pass that involves a black hole the merged body's tag is the tag of
\* the heavier merged body, and so the final color of the merge's flash hint.
C8_TagKeptUnderBlackHole ==
    last.op = "collide" =>
        \A n \in Merges :
            (First(n).body_type = "blackhole" \/ Second(n).body_type = "blackhole") =>
                /\ n <= Len(CreatedBodies) /\ n <= Len(last.flashes)
                /\ CreatedBodies[n].color = HeavierTag(First(n), Second(n))
                /\ CreatedBodies[n].color = last.flashes[n].final_color

\* C9: merge_bodies(A, B) and merge_bodies(B, A) have the same mass, position, velocity and
\* radius; kind and tag are the same too unless A and B have equal masses.
C9_MergeCommutes ==
    last.op = "merge" =>
        LET A == last.args[1]
            B == last.args[2]
            M == last.result[1]
            N == merge_bodies(B, A, M.ref)
        IN  /\ M.mass = N.mass
            /\ M.position = N.position
            /\ M.velocity = N.velocity
            /\ M.radius2 = N.radius2
            /\ A.mass # B.mass => M.body_type = N.body_type /\ M.color = N.color

\* a merge of two bodies of different mass and radius, neither a black hole
C9_Witness ==
    /\ last.op = "merge"
    /\ last.args[1].mass # last.args[2].mass
    /\ last.args[1].radius2 # last.args[2].radius2
    /\ last.args[1].body_type # last.args[2].body_type
    /\ last.result[1].body_type # "blackhole"

\* C10: the caller's bodies have positive mass and radius, and so has every body of the set
\* after any sequence of steps, collision passes and supernovas.
C10_PositiveMassRadius ==
    \A k \in 1..Len(bodies) : RPos(bodies[k].mass) /\ RPos(bodies[k].radius2)

\* a set that went through a step, an explosion and a pass with a merge
C10_Witness ==
    /\ steps > 0
    /\ novas > 0
    /\ last.op = "collide"
    /\ Len(last.pairs) > 0
    /\ Len(bodies) > 0

\* the positions and the masses of a list of bodies, as the step reads them
Positions(bs) == [i \in 1..Len(bs) |-> bs[i].position]
Masses(bs) == [i \in 1..Len(bs) |-> bs[i].mass]

\* v + 0.5 * a * dt
HalfKick(v, a, dt) == VAdd(v, VScale(VScale(a, Frac(1, 2)), dt))

\* C11: a step takes every new position from the positions, velocities and accelerations
\* before the step, p + (v + 0.5 * a * dt) * dt with a the acceleration at the old positions
\* of all bodies, and every new velocity from that half-step velocity and the acceleration
\* at the new positions of all bodies; it keeps mass, radius, kind and tag of every body and
\* the bodies' number and order, and does nothing on the empty set.
C11_StepFromSnapshot ==
    last.op = "verlet" =>
        /\ Len(bodies) = Len(last.pre)
        /\ last.pre = <<>> => bodies = <<>>
        /\ \A a \in {accel(Positions(last.pre), Masses(last.pre), G, SOFTENING)} :
           \A a_new \in {accel(Positions(bodies), Masses(last.pre), G, SOFTENING)} :
              \A i \in 1..Len(last.pre) :
                 \A v_half \in {HalfKick(last.pre[i].velocity, a[i], last.args[1])} :
                    /\ bodies[i].position
                          = VAdd(last.pre[i].position, VScale(v_half, last.args[1]))
                    /\ bodies[i].velocity = HalfKick(v_half, a_new[i], last.args[1])
                    /\ bodies[i] = [last.pre[i] EXCEPT !.position = bodies[i].position,
                                                       !.velocity = bodies[i].velocity]

\* a step of two bodies that pull at each other: the first one's velocity changed
C11_Witness ==
    /\ last.op = "verlet"
    /\ Len(last.pre) = 2
    /\ bodies[1].velocity # last.pre[1].velocity
    /\ bodies[2].velocity # last.pre[2].velocity

\* C12: on a set of zero or one body accel returns a zero acceleration for every body, so
\* a step moves the one body along its velocity and keeps the velocity; handle_collisions
\* merges nothing there: it returns the same bodies and no flash hint.
C12_SmallSets ==
    /\ Len(bodies) <= 1 =>
          \A a \in {accel(Positions(bodies), Masses(bodies), G, SOFTENING)} :
              /\ Len(a) = Len(bodies)
              /\ \A i \in 1..Len(a) : a[i] = <<Zero, Zero>>
    /\ (last.op = "verlet" /\ Len(last.pre) <= 1) =>
          /\ Len(bodies) = Len(last.pre)
          /\ \A i \in 1..Len(last.pre) :
                /\ bodies[i].velocity = last.pre[i].velocity
                /\ bodies[i].position
                      = VAdd(last.pre[i].position, VScale(last.pre[i].velocity, last.args[1]))
    /\ (last.op = "collide" /\ Len(last.pre) <= 1) =>
          /\ last.out = last.pre
          /\ bodies = last.pre
          /\ last.flashes = <<>>
          /\ last.pairs = <<>>

\* a pass over a single moving body that a step has advanced
C12_Witness ==
    /\ last.op = "collide"
    /\ Len(last.pre) = 1
    /\ steps > 0
    /\ last.pre[1].velocity # <<Zero, Zero>>

\* C13: a supernova adds fragments and a remnant to the set only when its target was in
\* the set just before the call, and the call removes that target; for a target that is not
\* in the set any more (a flagged star that a collision pass merged away) the call adds no
\* body and leaves the set as it was.
C13_FragmentsOnlyFromMembers ==
    last.op = "supernova" =>
        /\ Len(last.result) > 0 =>
              /\ last.args[1] \in Range(last.pre)
              /\ last.args[1] \notin Range(bodies)
        /\ last.args[1] \notin Range(last.pre) =>
              /\ last.result = <<>>
              /\ bodies = last.pre

\* some two bodies of the list are strictly closer than the sum of their radii
HasOverlap(bs) == \E i, j \in 1..Len(bs) : i < j /\ Overlaps(bs[i], bs[j])

\* the number of bodies the passes started from
StartCount == IF steps = 0 THEN Len(bodies) ELSE Len(last.args[1])

\* C14: a pass over a set with an overlapping pair merges at least once and returns fewer
\* bodies than it got; a pass over a set without one returns the same bodies and no flash
\* hint; and of the passes applied one after the other to a set of N bodies, pass N - 1 at
\* the latest leaves a set without an overlapping pair.
C14_PassesSettle ==
    /\ last.op = "collide" =>
          /\ HasOverlap(last.pre) => Len(last.pairs) >= 1 /\ Len(last.out) < Len(last.pre)
          /\ ~HasOverlap(last.pre) => last.out = last.pre /\ last.flashes = <<>>
    /\ steps >= StartCount - 1 => ~HasOverlap(bodies)

\* a third pass that still merged, on the way down from the debris of a supernova
C14_Witness ==
    /\ last.op = "collide"
    /\ steps >= 3
    /\ Len(last.pairs) >= 1
    /\ Len(last.args[1]) >= 7

TypeOK ==
    /\ steps \in 0..MaxSteps
    /\ novas \in 0..MaxNovas
    /\ \A k \in 1..Len(bodies) : bodies[k].ref < nextRef

====
